---- MODULE Spec2Model ----
(***************************************************************************)
(* Helio email service: the ingestion / classification / persistence      *)
(* pipeline.  Two executions of the pipeline exist in the program: the    *)
(* scheduled job (background_process.sync_emails, run by APScheduler in a *)
(* background thread) and the HTTP endpoint GET /api/email/sync           *)
(* (email_routers.sync_emails).  Both read and write the "emails" table   *)
(* through their own SQLAlchemy session (autocommit=False,                *)
(* autoflush=False).                                                      *)
(***************************************************************************)
EXTENDS Integers, Sequences, FiniteSets, TLC

\* ------------------------------------------------------------------ bounds
MaxBatch == 2       \* longest mailbox listing explored

\* ------------------------------------------------------- values of the model
None == "None"      \* Python None / SQL NULL

Procs == {"sched", "http"}

MsgIds == {"m1", "m2"}

GoodDate == "Mon, 20 Jan 2025 10:00:00 +0000"
BadDate == "not-a-date"
RawDates == {GoodDate, BadDate}

\* The headers and the body of the Gmail message with a given id.
SenderOf(id) == IF id = "m1" THEN "a@x" ELSE "b@x"

SubjectOf(id) == IF id = "m1" THEN "s1" ELSE "s2"

BodyOf(id) == IF id = "m1" THEN "b1" ELSE "b2"

\* What get_message_details builds for one Gmail message.
Message(id, date) ==
    [id |-> id, from |-> SenderOf(id), to |-> "me@x", subject |-> SubjectOf(id),
     body |-> BodyOf(id), date |-> date, has_attachments |-> FALSE]

Messages == {Message("m1", GoodDate), Message("m2", GoodDate), Message("m2", BadDate)}

\* A key a message dictionary lacks.
Absent == "<absent>"

\* A message dictionary that lacks its "id" key.
Malformed == Message(Absent, GoodDate)

RECURSIVE SeqsUpTo(_, _)
SeqsUpTo(S, n) ==
    IF n = 0 THEN {<<>>}
    ELSE LET shorter == SeqsUpTo(S, n - 1)
         IN  shorter \cup {Append(s, x) : s \in {t \in shorter : Len(t) = n - 1}, x \in S}

\* ------------------------------------------------------------ the database
\* Column default of EmailRecord.iu_score: the ORM leaves a None attribute
\* out of the INSERT, so the default is what the row gets.
IuDefault == 0

\* email.utils.parsedate_to_datetime: a datetime for an RFC 2822 date,
\* an exception for anything else.
ParsedOf(raw) ==
    IF raw = GoodDate THEN [ok |-> TRUE, value |-> "2025-01-20T10:00:00+00:00"]
    ELSE [ok |-> FALSE, value |-> None]

\* background_process.py 54-61: best-effort parse, None on failure or on an
\* empty header.
ParseDate(raw) ==
    IF raw = "" THEN None
    ELSE IF ParsedOf(raw).ok THEN ParsedOf(raw).value ELSE None

\* A value bound to the DateTime column date_sent is accepted when it is
\* null, a datetime, or a string the server can read as a timestamp.
DateStorable(v) ==
    \/ v = None
    \/ v = ParsedOf(GoodDate).value
    \/ ParsedOf(v).ok

\* The value the row holds once stored.
DateStored(v) == IF v \in RawDates /\ ParsedOf(v).ok THEN ParsedOf(v).value ELSE v

MessageIdsOf(rows) == {rows[k].message_id : k \in DOMAIN rows}

\* db.query(EmailRecord).filter(EmailRecord.message_id == message_id).first():
\* autoflush is off, so the query sees the committed rows only, never the
\* records this session has added and not yet flushed.
\* A plausible slip: the query filters on the integer key id, which no
\* provider identifier equals.
ExistsNever(rows, message_id) == FALSE

\* A plausible slip: the query has no filter, so any row answers it.
ExistsAny(rows, message_id) == rows # <<>>

Exists(rows, message_id) == message_id \in MessageIdsOf(rows)

\* The first record of the flush that the table refuses, 0 if none: a value the
\* date_sent column cannot take, or a message_id the unique index already
\* holds (a committed row, or an earlier record of the same flush).
RefusedAt(rows, pend) ==
    LET bad(k) == \/ ~DateStorable(pend[k].date_sent)
                  \/ pend[k].message_id \in MessageIdsOf(rows)
                  \/ \E j \in 1..(k - 1) : pend[j].message_id = pend[k].message_id
    IN  IF \E k \in DOMAIN pend : bad(k)
        THEN CHOOSE k \in DOMAIN pend : bad(k) /\ \A j \in 1..(k - 1) : ~bad(j)
        ELSE 0

FlushError(rows, pend) ==
    LET k == RefusedAt(rows, pend)
    IN  IF k = 0 THEN "none"
        ELSE IF ~DateStorable(pend[k].date_sent) THEN "DataError"
        ELSE "IntegrityError"

StoredRow(r) == [r EXCEPT !.date_sent = DateStored(r.date_sent)]

\* A plausible slip: the rows flushed before the refused one stay in the table.
CommitRowsPartial(rows, pend) ==
    LET k == RefusedAt(rows, pend)
    IN  IF k = 0
        THEN [error |-> "none", rows |-> rows \o [j \in DOMAIN pend |-> StoredRow(pend[j])]]
        ELSE [error |-> FlushError(rows, pend),
              rows |-> rows \o [j \in 1..(k - 1) |-> StoredRow(pend[j])]]

\* A plausible slip: message_id without its unique index.
CommitRowsNoUnique(rows, pend) ==
    IF \E k \in DOMAIN pend : ~DateStorable(pend[k].date_sent)
    THEN [error |-> "DataError", rows |-> rows]
    ELSE [error |-> "none", rows |-> rows \o [j \in DOMAIN pend |-> StoredRow(pend[j])]]

\* A plausible slip: db.merge in place of db.add, so that a record whose id
\* the table holds overwrites that row.
CommitRowsUpsert(rows, pend) ==
    IF \E k \in DOMAIN pend : ~DateStorable(pend[k].date_sent)
    THEN [error |-> "DataError", rows |-> rows]
    ELSE LET hit(i) == {k \in DOMAIN pend : pend[k].message_id = rows[i].message_id}
             upd == [i \in DOMAIN rows |->
                       IF hit(i) = {} THEN rows[i]
                       ELSE StoredRow(pend[CHOOSE k \in hit(i) : \A j \in hit(i) : j <= k])]
             fresh == SelectSeq(pend, LAMBDA r : r.message_id \notin MessageIdsOf(rows))
         IN  [error |-> "none", rows |-> upd \o [j \in DOMAIN fresh |-> StoredRow(fresh[j])]]

\* A plausible slip: a commit with nothing added is treated as an error.
CommitRowsEmptyFails(rows, pend) ==
    IF pend = <<>> THEN [error |-> "NothingToCommit", rows |-> rows]
    ELSE IF FlushError(rows, pend) = "none"
    THEN [error |-> "none", rows |-> rows \o [j \in DOMAIN pend |-> StoredRow(pend[j])]]
    ELSE [error |-> FlushError(rows, pend), rows |-> rows]

\* db.commit(): flush every added record in one transaction. A refusal raises
\* and the whole transaction is rolled back (db.rollback() in the scheduled
\* job, the close of the session in the endpoint).
CommitRows(rows, pend) ==
    IF FlushError(rows, pend) = "none"
    THEN [error |-> "none", rows |-> rows \o [j \in DOMAIN pend |-> StoredRow(pend[j])]]
    ELSE [error |-> FlushError(rows, pend), rows |-> rows]

\* ------------------------------------------------- classification gateway
Fallback ==
    [type |-> "dict", category |-> "Uncategorized", importance_score |-> 1,
     urgency_score |-> 1, summary |-> "Error in AI processing", intent |-> "Unknown"]

NoneObj == [type |-> "NoneType"]

AnalysisResult(score) ==
    [type |-> "EmailAnalysisResult", category |-> "Work", importance_score |-> score,
     urgency_score |-> score, summary |-> "sum", intent |-> "Invoice"]

\* The score the external model gives a message when it answers: the schema
\* declares the field int, with no range, so the answer may lie outside 1..5.
ModelScore(id) == IF id = "m1" THEN 3 ELSE 7

\* What client.models.generate_content can do for a message: raise (timeout,
\* quota), or answer with .parsed an EmailAnalysisResult, or with .parsed None
\* when the text of the answer does not validate against the schema.
ExtOutcomes(id) ==
    {[kind |-> "raise", parsed |-> NoneObj],
     [kind |-> "response", parsed |-> NoneObj],
     [kind |-> "response", parsed |-> AnalysisResult(ModelScore(id))]}

email_agent(api_key, ext) ==
    IF ~api_key THEN [kind |-> "raise", value |-> NoneObj]
    ELSE IF ext.kind = "raise" THEN [kind |-> "return", value |-> Fallback]
    ELSE [kind |-> "return", value |-> ext.parsed]

\* hasattr(agent_response, "dict"): true of a pydantic model, false of a
\* dict and of None.
HasDict(v) == v.type = "EmailAnalysisResult"

EmptyDict == <<>>

\* agent_response.dict()
DictOf(v) == [k \in DOMAIN v \ {"type"} |-> v[k]]

\* agent_response.dict() if hasattr(agent_response, "dict") else {}
AiOut(v) == IF HasDict(v) THEN DictOf(v) ELSE EmptyDict

\* A plausible slip (the variant of the loop with no catch around the call):
\* an exception of the gateway leaves the loop.
ClassifyNoCatch(res) ==
    IF res.kind = "raise" THEN [raised |-> TRUE, ai_out |-> EmptyDict]
    ELSE [raised |-> FALSE, ai_out |-> AiOut(res.value)]

\* try: agent_response = email_agent(...); ai_out = ...
\* except Exception: ai_out = {}
\* raised: whether an exception leaves the block.
Classify(res) ==
    IF res.kind = "raise" THEN [raised |-> FALSE, ai_out |-> EmptyDict]
    ELSE [raised |-> FALSE, ai_out |-> AiOut(res.value)]

\* ai_out.get(key)
Get(d, key) == IF key \in DOMAIN d THEN d[key] ELSE None

\* ai_out.get("importance_score") bound to iu_score: the value, or the
\* column default when it is None.
GetScore(d) == IF "importance_score" \in DOMAIN d THEN d["importance_score"] ELSE IuDefault

\* A plausible slip: labels and intention take each other's key.
BuildRecordSwapped(p, msg, ai_out) ==
    [message_id |-> msg.id,
     from_email |-> msg.from,
     to_email |-> msg.to,
     subject |-> msg.subject,
     body |-> msg.body,
     date_sent |-> IF p = "sched" THEN ParseDate(msg.date) ELSE msg.date,
     is_read |-> FALSE,
     has_attachments |-> msg.has_attachments,
     labels |-> Get(ai_out, "intent"),
     intention |-> Get(ai_out, "category"),
     iu_score |-> GetScore(ai_out)]

\* A plausible slip: sender and recipient take each other's key, and the
\* record starts as read.
BuildRecordMixed(p, msg, ai_out) ==
    [message_id |-> msg.id,
     from_email |-> msg.to,
     to_email |-> msg.from,
     subject |-> msg.subject,
     body |-> msg.body,
     date_sent |-> IF p = "sched" THEN ParseDate(msg.date) ELSE msg.date,
     is_read |-> TRUE,
     has_attachments |-> msg.has_attachments,
     labels |-> Get(ai_out, "category"),
     intention |-> Get(ai_out, "intent"),
     iu_score |-> GetScore(ai_out)]

\* EmailRecord(...) as each path builds it.
BuildRecord(p, msg, ai_out) ==
    [message_id |-> msg.id,
     from_email |-> msg.from,
     to_email |-> msg.to,
     subject |-> msg.subject,
     body |-> msg.body,
     date_sent |-> IF p = "sched" THEN ParseDate(msg.date) ELSE msg.date,
     is_read |-> FALSE,
     has_attachments |-> msg.has_attachments,
     labels |-> Get(ai_out, "category"),
     intention |-> Get(ai_out, "intent"),
     iu_score |-> GetScore(ai_out)]

\* ------------------------------------------------------------------ state
VARIABLES
    mailbox,     \* what the Gmail listing holds (is:unread), in order
    apiKey,      \* whether GEMINI_API_KEY is set in the environment
    store,       \* committed rows of the emails table, in insertion order
    pc,          \* per path: where its run is
    emails,      \* per path: the list get_new_emails returned
    idx,         \* per path: position of the for loop in emails
    pending,     \* per path: records added to the session, not yet flushed
    inserted,    \* per path: the inserted counter
    skipped,     \* per path: the skipped counter
    agent,       \* per path: agent_response, or the exception of the call
    tickSkipped, \* the scheduler logged a skipped tick since its job last began
    srcErr,      \* per path: the Gmail call that failed in this run (history)
    gated,       \* per path: ids the existence query did not find (history)
    called,      \* per path: the inputs the gateway was called with (history)
    session,     \* per path: the database session of its run
    reader,      \* GET /api/email/unread in progress: the rows its query returned
    rdResp,      \* the last answer of a read endpoint (history)
    email_connector, \* the global connector of the v1 router, None until set
    v1Resp,      \* the last answer of an endpoint of the v1 router (history)
    allFailed,   \* per path: no gateway call of the run got an answer so far (history)
    second,      \* per path: the run began after a run that had fetched ended (history)
    result       \* per path: how its last finished run ended (history)

vars == <<mailbox, apiKey, store, pc, emails, idx, pending, inserted, skipped,
          agent, tickSkipped, srcErr, gated, called, allFailed, second, result,
          session, reader, rdResp, email_connector, v1Resp>>

\* What the sync pipeline neither reads nor writes.
apiVars == <<reader, rdResp, email_connector, v1Resp>>

Active(p) == pc[p] \in {"fetching", "dedup", "classify", "build", "commit"}

Other(p) == CHOOSE q \in Procs : q # p

NoCall == [kind |-> "none", value |-> NoneObj]

NoReport == [kind |-> "none"]

NoResult ==
    [status |-> "none", error |-> "none", from |-> "none", fetched |-> FALSE,
     srcErr |-> "none", emails |-> <<>>, inserted |-> 0, skipped |-> 0,
     persisted |-> <<>>, gated |-> <<>>, called |-> <<>>, allFailed |-> TRUE,
     second |-> FALSE, report |-> NoReport]

\* A row an earlier run committed.
OldRow ==
    [message_id |-> "m1", from_email |-> "old@x", to_email |-> "me@x", subject |-> "s",
     body |-> "b", date_sent |-> None, is_read |-> FALSE, has_attachments |-> FALSE,
     labels |-> "Work", intention |-> "FYI", iu_score |-> 2]

\* No GET /api/email/unread is between its query and its update.
NoReader == [phase |-> "idle", records |-> {}]

\* No request has been answered.
NoAnswer == [endpoint |-> "none"]

InitRun ==
    /\ apiKey \in BOOLEAN
    /\ store \in {<<>>, <<OldRow>>}
    /\ pc = [p \in Procs |-> "idle"]
    /\ emails = [p \in Procs |-> <<>>]
    /\ idx = [p \in Procs |-> 1]
    /\ pending = [p \in Procs |-> <<>>]
    /\ inserted = [p \in Procs |-> 0]
    /\ skipped = [p \in Procs |-> 0]
    /\ agent = [p \in Procs |-> NoCall]
    /\ tickSkipped = FALSE
    /\ srcErr = [p \in Procs |-> "none"]
    /\ gated = [p \in Procs |-> <<>>]
    /\ called = [p \in Procs |-> <<>>]
    /\ session = [p \in Procs |-> "none"]
    /\ reader = NoReader
    /\ rdResp = NoAnswer
    /\ email_connector = None
    /\ v1Resp = NoAnswer
    /\ allFailed = [p \in Procs |-> TRUE]
    /\ second = [p \in Procs |-> FALSE]
    /\ result = [p \in Procs |-> NoResult]

Init ==
    /\ mailbox \in SeqsUpTo(Messages, MaxBatch)
    /\ InitRun

\* A plausible slip: the response reports the inserted count as fetched.
HttpSummaryFetchedIsInserted(msgs, ins, skp) ==
    [kind |-> "response", status |-> "ok", fetched |-> ins, inserted |-> ins,
     skipped |-> skp]

\* The body GET /api/email/sync returns after a commit.
HttpSummary(msgs, ins, skp) ==
    [kind |-> "response", status |-> "ok", fetched |-> Len(msgs), inserted |-> ins,
     skipped |-> skp]

\* What a run that has ended tells its caller: the endpoint returns the
\* summary or raises HTTPException(500); the scheduled job returns nothing
\* and logs "Sync complete | inserted=.., skipped=.." or the exception.
Report(p, status, msgs, ins, skp) ==
    IF p = "http"
    THEN IF status = "ok" THEN HttpSummary(msgs, ins, skp)
         ELSE [kind |-> "HTTPException", status |-> "500",
               detail |-> "Failed to sync emails"]
    ELSE IF status = "ok"
         THEN [kind |-> "log", status |-> "Sync complete", inserted |-> ins,
               skipped |-> skp]
         ELSE [kind |-> "log", status |-> "exception"]

\* A plausible slip: db.close() at the end of the try block, not in finally.
SessionAfterNoFinally(status, s) ==
    IF s = "open" /\ status = "ok" THEN "closed" ELSE s

\* finally: db.close() in the scheduled job, the finally of get_db for the
\* endpoint: a session that was opened is closed however the run ends, and
\* its transaction with it.
SessionAfter(status, s) == IF s = "open" THEN "closed" ELSE s

\* The end of a run: its outcome is recorded and its locals go away.
Finish(p, status, error, fetched) ==
    /\ result' = [result EXCEPT ![p] =
                    [status |-> status, error |-> error, from |-> pc[p],
                     fetched |-> fetched, srcErr |-> srcErr[p],
                     emails |-> emails[p], inserted |-> inserted[p], skipped |-> skipped[p],
                     persisted |-> IF status = "ok" THEN pending[p] ELSE <<>>,
                     gated |-> gated[p], called |-> called[p], allFailed |-> allFailed[p],
                     second |-> second[p],
                     report |-> Report(p, status, emails[p], inserted[p], skipped[p])]]
    /\ pc' = [pc EXCEPT ![p] = IF status = "ok" THEN "done" ELSE "failed"]
    /\ emails' = [emails EXCEPT ![p] = <<>>]
    /\ idx' = [idx EXCEPT ![p] = 1]
    /\ pending' = [pending EXCEPT ![p] = <<>>]
    /\ inserted' = [inserted EXCEPT ![p] = 0]
    /\ skipped' = [skipped EXCEPT ![p] = 0]
    /\ agent' = [agent EXCEPT ![p] = NoCall]
    /\ srcErr' = [srcErr EXCEPT ![p] = "none"]
    /\ gated' = [gated EXCEPT ![p] = <<>>]
    /\ called' = [called EXCEPT ![p] = <<>>]
    /\ session' = [session EXCEPT ![p] = SessionAfter(status, session[p])]
    /\ allFailed' = [allFailed EXCEPT ![p] = TRUE]
    /\ second' = [second EXCEPT ![p] = FALSE]

\* add_job(func=sync_emails, trigger="interval", minutes=5, ...) passes no
\* max_instances, so the scheduler's default holds: one running instance.
MaxInstances == 1

Instances == IF Active("sched") THEN 1 ELSE 0

\* A plausible slip: the job is submitted at every tick.
CanSubmitAlways == TRUE

\* A plausible slip: a job that raised is not submitted again.
CanSubmitUnlessFailed == Instances < MaxInstances /\ pc["sched"] # "failed"

\* The scheduler submits the job at a tick only below max_instances.
CanSubmit == Instances < MaxInstances

\* A timer tick of the interval job that finds no instance running, or a GET
\* /api/email/sync the event loop starts serving (the endpoint is a coroutine
\* that never awaits, so the loop serves one such request at a time).
Start(p) ==
    /\ IF p = "sched" THEN CanSubmit ELSE ~Active(p)
    /\ pc' = [pc EXCEPT ![p] = "fetching"]
    /\ second' = [second EXCEPT ![p] =
                    \E q \in Procs : result[q].fetched /\ result[q].emails = mailbox]
    /\ result' = [result EXCEPT ![p] = NoResult]
    /\ tickSkipped' = IF p = "sched" THEN FALSE ELSE tickSkipped
    /\ session' = [session EXCEPT ![p] = "none"]
    /\ UNCHANGED <<apiVars, mailbox, apiKey, store, emails, idx, pending, inserted, skipped,
                   agent, srcErr, gated, called, allFailed>>

\* A timer tick while the job is running: the scheduler logs "maximum number
\* of running instances reached" and drops the execution.
TickSkipped ==
    /\ Active("sched")
    /\ ~CanSubmit
    /\ ~tickSkipped
    /\ tickSkipped' = TRUE
    /\ UNCHANGED <<apiVars, mailbox, apiKey, store, pc, emails, idx, pending, inserted, skipped,
                   agent, srcErr, gated, called, allFailed, second, result, session>>

\* The elements of s at the positions in K, in order.
RECURSIVE Keep(_, _)
Keep(s, K) ==
    IF s = <<>> THEN <<>>
    ELSE LET front == Keep(SubSeq(s, 1, Len(s) - 1), K)
         IN  IF Len(s) \in K THEN Append(front, s[Len(s)]) ELSE front

\* EmailConnector(...), connector.connect(), connector.get_new_emails(), and
\* the session of the run, when every details call answers.  The constructor
\* authenticates and may raise; connect() is not among the methods the
\* EmailConnector class of email_connector_updated.py defines, so the call
\* may raise as well: either ends the run before anything is read or
\* written.  get_new_emails answers an HttpError of the listing with an
\* empty list.
Fetch(p) ==
    /\ pc[p] = "fetching"
    /\ \E out \in {"connect_error", "HttpError", "ok"} :
         IF out = "connect_error"
         THEN /\ Finish(p, "failed", "connect", FALSE)
              /\ UNCHANGED <<apiVars, mailbox, apiKey, store, tickSkipped>>
         ELSE LET got == IF out = "ok" THEN mailbox ELSE <<>>
              IN  /\ emails' = [emails EXCEPT ![p] = got]
                  /\ srcErr' = [srcErr EXCEPT ![p] =
                                  IF out = "HttpError" THEN "list" ELSE "none"]
                  /\ idx' = [idx EXCEPT ![p] = 1]
                  /\ pc' = [pc EXCEPT ![p] = IF got = <<>> THEN "commit" ELSE "dedup"]
                  /\ session' = [session EXCEPT ![p] = "open"]
                  /\ UNCHANGED <<apiVars, mailbox, apiKey, store, pending, inserted, skipped, agent,
                                 tickSkipped, gated, called, allFailed, second, result>>

\* The same calls when the details call of some message ends in an
\* HttpError: get_message_details returns None for it and get_new_emails
\* leaves the message out (K: the positions it keeps).
FetchPartial(p) ==
    /\ pc[p] = "fetching"
    /\ \E K \in (SUBSET DOMAIN mailbox) \ {DOMAIN mailbox} :
         LET got == Keep(mailbox, K)
         IN  /\ emails' = [emails EXCEPT ![p] = got]
             /\ srcErr' = [srcErr EXCEPT ![p] = "details"]
             /\ idx' = [idx EXCEPT ![p] = 1]
             /\ pc' = [pc EXCEPT ![p] = IF got = <<>> THEN "commit" ELSE "dedup"]
             /\ session' = [session EXCEPT ![p] = "open"]
             /\ UNCHANGED <<apiVars, mailbox, apiKey, store, pending, inserted, skipped, agent,
                            tickSkipped, gated, called, allFailed, second, result>>

\* A plausible slip: db.commit() inside the loop, after the first record.
AdvanceCommitEach(p) ==
    /\ idx' = [idx EXCEPT ![p] = idx[p] + 1]
    /\ pc' = [pc EXCEPT ![p] = "commit"]

\* End of one loop iteration.
Advance(p) ==
    /\ idx' = [idx EXCEPT ![p] = idx[p] + 1]
    /\ pc' = [pc EXCEPT ![p] = IF idx[p] = Len(emails[p]) THEN "commit" ELSE "dedup"]

\* A plausible slip: a message without id is passed over and the loop goes on.
IdLookupSkipsMalformed(msg) ==
    IF msg.id = Absent THEN "skip" ELSE "ok"

\* message_id = msg["id"]: a KeyError when the key is missing; the except
\* clause around the loop ends the run.
IdLookup(msg) ==
    IF msg.id = Absent THEN "KeyError" ELSE "ok"

\* Head of one loop iteration: the id, the existence query and the skip.
Dedup(p) ==
    /\ pc[p] = "dedup"
    /\ LET msg == emails[p][idx[p]]
       IN  IF IdLookup(msg) = "KeyError"
           THEN /\ Finish(p, "failed", "KeyError", TRUE)
                /\ UNCHANGED <<apiVars, mailbox, apiKey, store, tickSkipped>>
           ELSE /\ IF IdLookup(msg) = "skip" \/ Exists(store, msg.id)
                   THEN /\ skipped' = [skipped EXCEPT ![p] =
                                         IF IdLookup(msg) = "skip" THEN skipped[p]
                                         ELSE skipped[p] + 1]
                        /\ Advance(p)
                        /\ UNCHANGED gated
                   ELSE /\ pc' = [pc EXCEPT ![p] = "classify"]
                        /\ gated' = [gated EXCEPT ![p] = Append(gated[p], msg.id)]
                        /\ UNCHANGED <<skipped, idx>>
                /\ UNCHANGED <<apiVars, mailbox, apiKey, store, emails, pending, inserted, agent,
                               tickSkipped, srcErr, called, allFailed, second, result,
                               session>>

\* email_agent(email_content=msg["body"], sender_info=msg["from"]): what the
\* call is given.
CallInput(msg) == [email_content |-> msg.body, sender_info |-> msg.from]

\* A plausible slip: the call is made again when the external model raised.
CallRetry(p) ==
    /\ pc[p] = "classify"
    /\ \E ext \in ExtOutcomes(emails[p][idx[p]].id) :
         /\ agent' = [agent EXCEPT ![p] = email_agent(apiKey, ext)]
         /\ called' = [called EXCEPT ![p] =
                         IF ext.kind = "raise"
                         THEN called[p] \o <<CallInput(emails[p][idx[p]]),
                                             CallInput(emails[p][idx[p]])>>
                         ELSE Append(called[p], CallInput(emails[p][idx[p]]))]
         /\ allFailed' = [allFailed EXCEPT ![p] =
                            allFailed[p] /\ (~apiKey \/ ext.kind = "raise")]
    /\ pc' = [pc EXCEPT ![p] = "build"]
    /\ UNCHANGED <<apiVars, mailbox, apiKey, store, emails, idx, pending, inserted, skipped,
                   tickSkipped, srcErr, gated, second, result, session>>

\* The gateway call of the iteration.
Call(p) ==
    /\ pc[p] = "classify"
    /\ \E ext \in ExtOutcomes(emails[p][idx[p]].id) :
         /\ agent' = [agent EXCEPT ![p] = email_agent(apiKey, ext)]
         /\ called' = [called EXCEPT ![p] = Append(called[p], CallInput(emails[p][idx[p]]))]
         /\ allFailed' = [allFailed EXCEPT ![p] =
                            allFailed[p] /\ (~apiKey \/ ext.kind = "raise")]
    /\ pc' = [pc EXCEPT ![p] = "build"]
    /\ UNCHANGED <<apiVars, mailbox, apiKey, store, emails, idx, pending, inserted, skipped,
                   tickSkipped, srcErr, gated, second, result, session>>

\* A plausible slip: a session that commits each record as it is added.
AfterAddAutocommit(rows, rec) ==
    IF FlushError(rows, <<rec>>) = "none" THEN Append(rows, StoredRow(rec)) ELSE rows

\* The table after db.add(record): the session neither flushes nor commits
\* on its own (autocommit=False, autoflush=False), so it is as before.
AfterAdd(rows, rec) == rows

\* Rest of the iteration: ai_out, the record, db.add.
BuildAndAdd(p) ==
    /\ pc[p] = "build"
    /\ LET msg == emails[p][idx[p]]
           c == Classify(agent[p])
       IN  IF c.raised
           THEN /\ Finish(p, "failed", "classification", TRUE)
                /\ UNCHANGED <<apiVars, mailbox, apiKey, store, tickSkipped>>
           ELSE /\ pending' = [pending EXCEPT ![p] =
                                 Append(pending[p], BuildRecord(p, msg, c.ai_out))]
                /\ inserted' = [inserted EXCEPT ![p] = inserted[p] + 1]
                /\ agent' = [agent EXCEPT ![p] = NoCall]
                /\ Advance(p)
                /\ store' = AfterAdd(store, BuildRecord(p, msg, c.ai_out))
                /\ UNCHANGED <<apiVars, mailbox, apiKey, emails, skipped, tickSkipped,
                               srcErr, gated, called, allFailed, second, result, session>>

\* db.commit() after the loop, and what follows it on each outcome.
Commit(p) ==
    /\ pc[p] = "commit"
    /\ LET c == CommitRows(store, pending[p])
       IN  /\ store' = c.rows
           /\ Finish(p, IF c.error = "none" THEN "ok" ELSE "failed", c.error, TRUE)
    /\ UNCHANGED <<apiVars, mailbox, apiKey, tickSkipped>>

Next ==
    \E p \in Procs :
        Start(p) \/ Fetch(p) \/ Dedup(p) \/ Call(p) \/ BuildAndAdd(p) \/ Commit(p)

Spec == Init /\ [][Next]_vars

\* The same program when no run begins while another is in progress.
NextSeq ==
    \E p \in Procs :
        \/ Start(p) /\ ~Active(Other(p))
        \/ Fetch(p) \/ Dedup(p) \/ Call(p) \/ BuildAndAdd(p) \/ Commit(p)

SpecSeq == Init /\ [][NextSeq]_vars

\* The program with the timer ticks that fall into a running job.
NextSched == Next \/ TickSkipped

SpecSched == Init /\ [][NextSched]_vars

\* The scheduled job alone, with a timer that keeps ticking: the interval
\* trigger fires every five minutes for as long as the process lives, so a
\* tick that finds no instance running does come.
NextJob ==
    \/ Start("sched") \/ TickSkipped
    \/ Fetch("sched") \/ Dedup("sched") \/ Call("sched") \/ BuildAndAdd("sched")
    \/ Commit("sched")

SpecJob == Init /\ [][NextJob]_vars /\ WF_vars(Start("sched"))

\* The program when details calls of the mail source may fail.
NextSrc == Next \/ \E p \in Procs : FetchPartial(p)

SpecSrc == Init /\ [][NextSrc]_vars

\* The program with failing details calls, over listings that hold each id
\* once, as the listing of a Gmail mailbox does.
InitRace ==
    /\ mailbox \in {m \in SeqsUpTo(Messages, MaxBatch) :
                      \A i, j \in DOMAIN m : m[i].id = m[j].id => i = j}
    /\ InitRun

SpecRace == InitRace /\ [][NextSrc]_vars

\* A step of a run that has started.
RunStep(p) == Fetch(p) \/ Dedup(p) \/ Call(p) \/ BuildAndAdd(p) \/ Commit(p)

\* The program over listings that hold each id once, when every external
\* call of a started run returns or raises: a run that can take its next
\* step does take it.
SpecFair == InitRace /\ [][Next]_vars /\ \A p \in Procs : WF_vars(RunStep(p))

\* The program when the listing holds a message without id.
InitMal ==
    /\ mailbox \in {m \in SeqsUpTo(Messages \cup {Malformed}, MaxBatch) :
                      \E k \in DOMAIN m : m[k] = Malformed}
    /\ InitRun

SpecMal == InitMal /\ [][Next]_vars

\* The scheduled job over a listing that holds a message without id, when
\* the timer keeps ticking, a started step of the job is carried out, and
\* the mail source answers the fetch with the whole listing again and again.
SpecJobMal ==
    /\ InitMal
    /\ [][NextJob]_vars
    /\ WF_vars(Start("sched"))
    /\ WF_vars(Dedup("sched") \/ Call("sched") \/ BuildAndAdd("sched") \/ Commit("sched"))
    /\ SF_vars(Fetch("sched") /\ emails'["sched"] = mailbox)
\* ------------------------------------------------------ the read endpoints
\* What the read endpoints leave alone.
syncVars == <<mailbox, apiKey, pc, emails, idx, pending, inserted, skipped, agent,
              tickSkipped, srcErr, gated, called, allFailed, second, result, session>>

\* .limit(10) of /all and /important.
PageLimit == 10

\* EmailRecord.iu_score >= 3 of /important.
ImportantMin == 3

\* The rows, by their place in the table, of
\* db.query(EmailRecord).filter(EmailRecord.is_read == False).
UnreadRows(rows) == {k \in DOMAIN rows : ~rows[k].is_read}

\* The rows of db.query(EmailRecord).filter(EmailRecord.iu_score >= 3).
ImportantRows(rows) == {k \in DOMAIN rows : rows[k].iu_score >= ImportantMin}

\* "date": r.date_sent.isoformat() if r.date_sent else None
DateField(r) == IF r.date_sent = None THEN None ELSE r.date_sent

\* The returned list validates against List[EmailResponseModel], whose date
\* is a required str: a None date is refused.
ResponseValid(rows, K) == \A k \in K : DateField(rows[k]) # None

\* The status a read endpoint answers with: the list, or the server error
\* of the refused response.
AnswerStatus(rows, K) == IF ResponseValid(rows, K) THEN "200" ELSE "500"

\* GET /api/email/unread, first statement: the unread rows are read.
UnreadQuery ==
    /\ reader.phase = "idle"
    /\ reader' = [phase |-> "selected",
                  records |-> UnreadRows(store)]
    /\ UNCHANGED <<syncVars, store, rdResp, email_connector, v1Resp>>

\* GET /api/email/unread, the rest: the bulk update of the rows that are
\* unread now, the commit, and the response built from the rows read first.
UnreadUpdate ==
    /\ reader.phase = "selected"
    /\ LET marked == UnreadRows(store)
           after == [k \in DOMAIN store |->
                       IF k \in marked THEN [store[k] EXCEPT !.is_read = TRUE]
                       ELSE store[k]]
           status == AnswerStatus(after, reader.records)
       IN  /\ store' = after
           /\ rdResp' = [endpoint |-> "unread", status |-> status,
                         returned |-> IF status = "200" THEN reader.records ELSE {},
                         marked |-> marked]
    /\ reader' = NoReader
    /\ UNCHANGED <<syncVars, email_connector, v1Resp>>

\* GET /api/email/all
ReadAll ==
    /\ LET K == {k \in DOMAIN store : k <= PageLimit}
           status == AnswerStatus(store, K)
       IN  rdResp' = [endpoint |-> "all", status |-> status,
                      returned |-> IF status = "200" THEN K ELSE {}, marked |-> {}]
    /\ UNCHANGED <<syncVars, store, reader, email_connector, v1Resp>>

\* GET /api/email/important (the model's store never holds more rows than
\* the limit, so the order by score does not select).
ReadImportant ==
    /\ LET K == ImportantRows(store)
           status == AnswerStatus(store, K)
       IN  /\ Cardinality(K) <= PageLimit
           /\ rdResp' = [endpoint |-> "important", status |-> status,
                         returned |-> IF status = "200" THEN K ELSE {}, marked |-> {}]
    /\ UNCHANGED <<syncVars, store, reader, email_connector, v1Resp>>

\* The scheduled job next to the read endpoints: the job runs on the
\* scheduler's thread, the endpoints on the event loop, one at a time.
NextRead ==
    \/ Start("sched") \/ Fetch("sched") \/ Dedup("sched") \/ Call("sched")
    \/ BuildAndAdd("sched") \/ Commit("sched")
    \/ UnreadQuery \/ UnreadUpdate \/ ReadAll \/ ReadImportant

SpecRead == Init /\ [][NextRead]_vars

\* ----------------------------------------------------------- the v1 router
\* The endpoints of the v1 router that ask for the global connector.
V1Endpoints == {"unread", "search", "message", "attachments", "attachment",
                "mark-read", "send", "reply", "batch/mark-read", "health"}

\* The endpoints whose handler has "except HTTPException: raise" before its
\* "except Exception".
Reraises == {"message", "attachment", "mark-read", "send", "reply"}

\* get_email_connector: the connector, or the HTTPException it raises.
get_email_connector(connector) == IF connector = None THEN "503" ELSE "ok"

\* What an endpoint answers when an HTTPException with this status is raised
\* inside its try: health answers 503 itself, a handler that re-raises lets
\* the status through, and "except Exception" alone turns it into a 500.
AfterExcept(e, raised) ==
    IF e = "health" THEN "503"
    ELSE IF e \in Reraises THEN raised
    ELSE "500"

\* What an endpoint answers once it holds the connector: the result, the
\* 404 of the two lookups, or the 500 of a connector call that failed.
ConnectorOutcomes(e) ==
    IF e = "health" THEN {"200"}
    ELSE IF e \in {"message", "attachment"}
         THEN {"200", AfterExcept(e, "404"), "500"}
    ELSE {"200", "500"}

\* init_connector: the constructor returns and the global is set, or it
\* raises and the global is left as it was.
InitConnector ==
    /\ \E ok \in BOOLEAN :
          /\ email_connector' = IF ok THEN "connector" ELSE email_connector
          /\ v1Resp' = [endpoint |-> "init_connector",
                        status |-> IF ok THEN "ok" ELSE "raised"]
    /\ UNCHANGED <<syncVars, store, reader, rdResp>>

\* One request to an endpoint of the v1 router.
V1Request(e) ==
    /\ LET got == get_email_connector(email_connector)
       IN  \E st \in IF got = "ok" THEN ConnectorOutcomes(e)
                      ELSE {AfterExcept(e, got)} :
              v1Resp' = [endpoint |-> e, initialised |-> (got = "ok"),
                         status |-> st, op |-> (got = "ok" /\ e # "health")]
    /\ UNCHANGED <<syncVars, store, reader, rdResp, email_connector>>

NextV1 == InitConnector \/ \E e \in V1Endpoints : V1Request(e)

SpecV1 == Init /\ [][NextV1]_vars

\* ------------------------------------------------------------ properties
IdSeq(rows) == [k \in DOMAIN rows |-> rows[k].message_id]

Finished(p) == result[p].status # "none"

ResultFields == {"category", "importance_score", "urgency_score", "summary", "intent"}

\* C1: a sync run made after another run has fetched the same, unchanged
\* mailbox and ended, with no run overlapping it, inserts nothing and skips
\* every message it fetched as a duplicate (so the store stays as the first
\* run left it).
C1_SecondRunSkipsAll ==
    \A p \in Procs :
        (Finished(p) /\ result[p].second /\ result[p].fetched /\ result[p].emails = mailbox)
            => /\ result[p].persisted = <<>>
               /\ result[p].inserted = 0
               /\ result[p].skipped = Len(result[p].emails)

\* C2: in every reachable state, whatever the interleaving of scheduled and
\* HTTP-triggered runs, the store holds at most one row per message id.
C2_OneRecordPerId ==
    \A i, j \in DOMAIN store : store[i].message_id = store[j].message_id => i = j

\* Both paths tried to insert the same new message; one committed it, the
\* other was refused, and the store holds it once.
C2_Witness ==
    \E p \in Procs :
        /\ result[p].status = "ok" /\ "m2" \in MessageIdsOf(result[p].persisted)
        /\ result[Other(p)].error = "IntegrityError"
        /\ "m2" \in MessageIdsOf(store)

\* C3: a commit that fails leaves the store exactly as it was: none of the
\* records of that run becomes visible.
C3_AtomicCommit ==
    [][\A p \in Procs : (pc[p] = "commit" /\ pc'[p] = "failed") => store' = store]_vars

\* A run submitted two records, the second was refused by the unique index,
\* and the first is not in the store either.
C3_Witness ==
    \E p \in Procs :
        /\ result[p].status = "failed" /\ result[p].error = "IntegrityError"
        /\ result[p].gated = <<"m2", "m2">>
        /\ "m2" \notin MessageIdsOf(store)

\* C4: when the classification call fails for every message of a run, every
\* message that passed the deduplication gate is persisted, each with
\* category "Uncategorized", importance score 1 and intent "Unknown".
C4_FallbackValuesPersisted ==
    \A p \in Procs :
        (result[p].status = "ok" /\ result[p].allFailed)
            => /\ IdSeq(result[p].persisted) = result[p].gated
               /\ \A k \in DOMAIN result[p].persisted :
                      /\ result[p].persisted[k].labels = "Uncategorized"
                      /\ result[p].persisted[k].iu_score = 1
                      /\ result[p].persisted[k].intention = "Unknown"

\* C5: the classification gateway never raises to its caller.
C5_GatewayNeverRaises == \A p \in Procs : agent[p].kind # "raise"

\* C6: every value the classification gateway returns is a fully populated
\* result, never null and never partial.
C6_GatewayResultPopulated ==
    \A p \in Procs :
        agent[p].kind = "return"
            => /\ agent[p].value.type # "NoneType"
               /\ ResultFields \subseteq DOMAIN agent[p].value

\* C7: a classification failure neither aborts the run nor skips the message:
\* the records a run has built are, in order, exactly the messages the
\* existence query did not find, whatever the gateway did for each of them;
\* a run that commits persists exactly those, and no run ends because of a
\* classification.
C7_ClassificationNeverDrops ==
    \A p \in Procs :
        /\ pc[p] \in {"dedup", "commit"} => IdSeq(pending[p]) = gated[p]
        /\ result[p].status = "ok" => IdSeq(result[p].persisted) = result[p].gated
        /\ result[p].error # "classification"

\* One run persisted a message whose classification failed next to one whose
\* classification succeeded.
C7_Witness ==
    \E p \in Procs :
        /\ result[p].status = "ok"
        /\ \E k \in DOMAIN result[p].persisted : result[p].persisted[k].labels = None
        /\ \E k \in DOMAIN result[p].persisted : result[p].persisted[k].labels = "Work"

\* C8: every importance/urgency score in a stored row is an integer in 1..5.
C8_ScoresInRange == \A k \in DOMAIN store : store[k].iu_score \in 1..5

\* C9: a run persists at most one record per message id, also when the
\* fetched batch repeats an id.
C9_BatchDedup ==
    \A p \in Procs : \A id \in MsgIds :
        Cardinality({k \in DOMAIN result[p].persisted :
                        result[p].persisted[k].message_id = id}) <= 1

\* A run whose batch repeated an id that the store did not hold has ended.
C9_Witness ==
    \E p \in Procs :
        /\ Finished(p)
        /\ \E i, j \in DOMAIN result[p].gated :
               i # j /\ result[p].gated[i] = result[p].gated[j]

\* C10: with no concurrent writer, the commit of a sync run never fails on
\* the uniqueness constraint, whatever the fetched batch.
C10_CommitNeverHitsUnique == \A p \in Procs : result[p].error # "IntegrityError"

\* C11: while a scheduled run is in progress, in whatever state, no scheduled
\* run begins; a timer tick that falls into it is skipped: it is logged and
\* changes nothing of any run or of the store.
C11_SchedulerExclusion ==
    [][/\ Active("sched") => ~(pc'["sched"] = "fetching" /\ pc["sched"] # "fetching")
       /\ (tickSkipped' /\ ~tickSkipped)
            => /\ Active("sched")
               /\ UNCHANGED <<store, pc, emails, idx, pending, inserted, skipped, result>>]_vars

\* A tick fell into a scheduled run that had a classification answer in
\* hand, and was skipped.
C11_Witness == tickSkipped /\ pc["sched"] = "build"

\* C12: at no time are a scheduled run and a run of GET /api/email/sync in
\* progress together.
C12_NoOverlap == ~(Active("sched") /\ Active("http"))

\* The last finished run of p met a failure of the mail source while fetching.
SourceFailed(p) ==
    Finished(p) /\ (result[p].srcErr # "none" \/ result[p].error = "connect")

\* The report tells a failure.
ReportsFailure(rep) ==
    \/ rep.kind = "HTTPException"
    \/ rep.kind = "log" /\ rep.status = "exception"

\* C13: a run whose fetch met a failure of the mail source (authentication or
\* network, on the listing or on the details of any message) ends Failed and
\* persists no record.
C13_SourceFailureAbandonsRun ==
    \A p \in Procs :
        SourceFailed(p) => result[p].status = "failed" /\ result[p].persisted = <<>>

\* C14: a run whose fetch failed at the mail source is reported as a failure,
\* never as a success with zero fetched, zero inserted and zero skipped.
C14_FailureDistinctFromEmpty ==
    \A p \in Procs :
        SourceFailed(p)
            => /\ ReportsFailure(result[p].report)
               /\ ~(result[p].report.kind = "response" /\ result[p].report.status = "ok")

\* The ids of the records a finished run persisted.
PersistedIds(p) == {result[p].persisted[k].message_id : k \in DOMAIN result[p].persisted}

\* How many messages the run fetched whose id the store already held: on a
\* successful run, those of which the run persisted no record.
FetchedAlreadyStored(p) ==
    Cardinality({j \in DOMAIN result[p].emails : result[p].emails[j].id \notin PersistedIds(p)})

\* How many messages the run fetched that it persisted.
FetchedNew(p) ==
    Cardinality({j \in DOMAIN result[p].emails : result[p].emails[j].id \in PersistedIds(p)})

C16_NullDateTolerated ==
    \A p \in Procs :
        /\ result[p].error # "DataError"
        /\ result[p].status = "ok"
             => \A k \in DOMAIN result[p].persisted : \A j \in DOMAIN result[p].emails :
                    (/\ result[p].emails[j].id = result[p].persisted[k].message_id
                     /\ ~ParsedOf(result[p].emails[j].date).ok)
                        => result[p].persisted[k].date_sent = None

\* C17: no step of a sync run, successful or failed, changes or removes a
\* row the store already holds: after the step every earlier row is in its
\* place, field for field, also when the step is a commit that is rolled
\* back.
C17_StoredRowsUntouched ==
    [][(<<pc, idx>>' # <<pc, idx>>)
         => /\ Len(store') >= Len(store)
            /\ \A k \in DOMAIN store : store'[k] = store[k]]_vars

\* The store held a row before any run; since then one run committed a
\* record and another was rolled back, and the row is as it was.
C17_Witness ==
    /\ Len(store) = 2
    /\ store[1] = OldRow
    /\ \E p \in Procs :
         /\ result[p].error = "IntegrityError"
         /\ result[Other(p)].status = "ok"
         /\ result[Other(p)].persisted # <<>>

\* The list holds a message without id.
HasMalformed(msgs) == \E j \in DOMAIN msgs : msgs[j].id = Absent

C19_EmptyFetchSucceeds ==
    [][\A p \in Procs :
           (pc[p] = "commit" /\ emails[p] = <<>> /\ pc'[p] # "commit")
               => /\ pc'[p] = "done"
                  /\ store' = store
                  /\ result'[p].status = "ok"
                  /\ result'[p].inserted = 0
                  /\ result'[p].skipped = 0
                  /\ result'[p].persisted = <<>>]_vars

\* The mailbox was empty and a run over it has ended successfully.
C19_Witness ==
    /\ mailbox = <<>>
    /\ \E p \in Procs :
         /\ result[p].status = "ok"
         /\ result[p].fetched
         /\ result[p].srcErr = "none"
         /\ result[p].emails = <<>>

StepOf(p) == <<pc[p], idx[p]>>' # <<pc[p], idx[p]>>

\* C21: no step a run takes before its commit step changes the store: up to
\* that step the store other readers see is what it was when the run began,
\* apart from what other runs commit, so a run cancelled before its commit
\* leaves the store unchanged.
C21_NoWriteBeforeCommit ==
    [][\A p \in Procs :
           (StepOf(p) /\ pc[p] \in {"fetching", "dedup", "classify", "build"})
               => store' = store]_vars

\* A run has added two records to its session and stands before its commit:
\* the store is still empty.
C21_Witness ==
    \E p \in Procs : pc[p] = "commit" /\ Len(pending[p]) = 2 /\ store = <<>>

\* C22: after a scheduled run has ended Failed the scheduler starts a new run
\* at a later tick; the failed run is not retried within its invocation: the
\* next step of the job is the start of a fresh run, a run fetches only when
\* a tick starts it, and its commit step ends it.
C22_RetryAtNextTick ==
    /\ (pc["sched"] = "failed") ~> (pc["sched"] = "fetching")
    /\ [][/\ (pc["sched"] = "failed" /\ pc'["sched"] # "failed")
               => pc'["sched"] = "fetching" /\ result'["sched"] = NoResult
          /\ (pc'["sched"] = "fetching" /\ pc["sched"] # "fetching")
               => ~Active("sched")
          /\ (pc["sched"] = "commit" /\ pc'["sched"] # "commit")
               => pc'["sched"] \in {"done", "failed"}]_vars

\* A tick started a run after a run that had fetched the whole mailbox ended
\* without persisting any of it.
C22_Witness ==
    /\ pc["sched"] = "fetching"
    /\ second["sched"]
    /\ mailbox # <<>>
    /\ store = <<>>

\* C23: the commit is one barrier at the end of the run: a run takes its
\* commit step only when every fetched message has been skipped or turned
\* into a record of the session, that step ends the run, and the store
\* changes in no other step.
C23_CommitBarrier ==
    [][\A p \in Procs :
           /\ (StepOf(p) /\ pc[p] = "commit")
                => /\ idx[p] = Len(emails[p]) + 1
                   /\ inserted[p] + skipped[p] = Len(emails[p])
                   /\ Len(pending[p]) = inserted[p]
                   /\ pc'[p] \in {"done", "failed"}
           /\ (StepOf(p) /\ store' # store)
                => pc[p] = "commit" /\ pc'[p] = "done"]_vars

\* A run fetched two messages, turned both into records and committed them
\* together.
C23_Witness ==
    \E p \in Procs :
        /\ result[p].status = "ok"
        /\ Len(result[p].emails) = 2
        /\ Len(result[p].persisted) = 2
        /\ Len(store) = 2

\* C24: within a run the gateway is called once for each fetched message the
\* existence query did not find, with that message's body and sender, and
\* in no other step, so never for a skipped message; adding the record of
\* one message leaves the records already added for other messages as they
\* were; a run that commits has made as many calls as it fetched messages
\* less those it skipped, one per record.
C24_OneCallPerGatedMessage ==
    [][\A p \in Procs :
           /\ (StepOf(p) /\ pc[p] = "classify")
                => /\ Len(called[p]) = Len(gated[p]) - 1
                   /\ gated[p][Len(gated[p])] = emails[p][idx[p]].id
                   /\ called'[p] = Append(called[p], CallInput(emails[p][idx[p]]))
           /\ (StepOf(p) /\ pc[p] # "classify" /\ Active(p) /\ Active(p)')
                => called'[p] = called[p]
           /\ (StepOf(p) /\ pc[p] = "build" /\ Active(p)')
                => /\ Len(pending'[p]) = Len(pending[p]) + 1
                   /\ \A k \in DOMAIN pending[p] : pending'[p][k] = pending[p][k]
           /\ (StepOf(p) /\ pc'[p] = "done")
                => /\ Len(result'[p].called) = Len(result'[p].emails) - result'[p].skipped
                   /\ Len(result'[p].called) = Len(result'[p].persisted)]_vars

\* A run fetched two messages, skipped one and called the gateway once, for
\* the other.
C24_Witness ==
    \E p \in Procs :
        /\ result[p].status = "ok"
        /\ Len(result[p].emails) = 2
        /\ result[p].skipped = 1
        /\ Len(result[p].called) = 1
        /\ result[p].called[1].email_content = BodyOf(result[p].persisted[1].message_id)

\* C25: the existence query decides by the identifier alone: a fetched
\* message whose id a stored row has is skipped, whatever its sender,
\* subject, body or date, and the step changes neither the store nor the
\* session; a message whose id no row has passes the gate.
C25_DedupByIdOnly ==
    [][\A p \in Procs :
           (StepOf(p) /\ pc[p] = "dedup")
               => IF emails[p][idx[p]].id \in MessageIdsOf(store)
                  THEN /\ skipped'[p] = skipped[p] + 1
                       /\ pc'[p] \in {"dedup", "commit"}
                       /\ pending'[p] = pending[p]
                       /\ gated'[p] = gated[p]
                       /\ store' = store
                  ELSE /\ pc'[p] = "classify"
                       /\ skipped'[p] = skipped[p]]_vars

\* A run skipped a fetched message whose sender, subject and body all differ
\* from those of the stored row with its id; the row is as it was.
C25_Witness ==
    \E p \in Procs : \E j \in DOMAIN result[p].emails :
        /\ result[p].status = "ok"
        /\ result[p].skipped >= 1
        /\ Len(store) >= 1
        /\ store[1] = OldRow
        /\ result[p].emails[j].id = OldRow.message_id
        /\ result[p].emails[j].from # OldRow.from_email
        /\ result[p].emails[j].subject # OldRow.subject
        /\ result[p].emails[j].body # OldRow.body
        /\ result[p].emails[j].id \notin PersistedIds(p)

\* The record the step has just added to the session of p.
Added(p) == pending'[p][Len(pending'[p])]

\* C26: when the gateway returned a classification result for a message,
\* the record built for it has that result's category as labels, its intent
\* as intention and its importance score as iu_score, and the row a
\* successful commit stores for it has the same three values.
C26_ClassificationCopied ==
    [][\A p \in Procs :
           /\ (/\ StepOf(p) /\ pc[p] = "build" /\ Active(p)'
               /\ agent[p].kind = "return"
               /\ agent[p].value.type = "EmailAnalysisResult")
                => /\ Added(p).message_id = emails[p][idx[p]].id
                   /\ Added(p).labels = agent[p].value.category
                   /\ Added(p).intention = agent[p].value.intent
                   /\ Added(p).iu_score = agent[p].value.importance_score
           /\ (StepOf(p) /\ pc'[p] = "done")
                => /\ Len(store') = Len(store) + Len(pending[p])
                   /\ \A k \in DOMAIN pending[p] :
                        /\ store'[Len(store) + k].message_id = pending[p][k].message_id
                        /\ store'[Len(store) + k].labels = pending[p][k].labels
                        /\ store'[Len(store) + k].intention = pending[p][k].intention
                        /\ store'[Len(store) + k].iu_score = pending[p][k].iu_score]_vars

\* The store holds the row of a message the gateway classified, with the
\* category, intent and score of the result.
C26_Witness ==
    \E k \in DOMAIN store :
        /\ store[k] # OldRow
        /\ store[k].labels = AnalysisResult(0).category
        /\ store[k].intention = AnalysisResult(0).intent
        /\ store[k].iu_score = ModelScore(store[k].message_id)

\* C27: every row a sync run inserts has is_read false when it is inserted,
\* and its sender, recipient, subject and body are those of the fetched
\* message of the run that has its id.
C27_VerbatimCopyUnread ==
    [][\A p \in Procs :
           (StepOf(p) /\ pc'[p] = "done")
               => \A k \in (Len(store) + 1)..Len(store') :
                      /\ store'[k].is_read = FALSE
                      /\ \E j \in DOMAIN emails[p] :
                             emails[p][j].id = store'[k].message_id
                      /\ \A j \in DOMAIN emails[p] :
                             emails[p][j].id = store'[k].message_id
                                 => /\ store'[k].from_email = emails[p][j].from
                                    /\ store'[k].to_email = emails[p][j].to
                                    /\ store'[k].subject = emails[p][j].subject
                                    /\ store'[k].body = emails[p][j].body]_vars

\* Sync runs inserted the rows of two messages with different senders,
\* subjects and bodies, each with the fields of its own message, both unread.
C27_Witness ==
    /\ Len(store) = 2
    /\ store[1] # OldRow
    /\ \A k \in DOMAIN store :
         /\ store[k].is_read = FALSE
         /\ store[k].from_email = SenderOf(store[k].message_id)
         /\ store[k].subject = SubjectOf(store[k].message_id)
         /\ store[k].body = BodyOf(store[k].message_id)
    /\ store[1].from_email # store[2].from_email
    /\ store[1].subject # store[2].subject
    /\ store[1].body # store[2].body

\* The ids the existence queries of the last finished run of p did not find.
GatedIds(p) == {result[p].gated[k] : k \in DOMAIN result[p].gated}

\* C28: when a run comes to its commit with a record whose id another run
\* has stored meanwhile, the commit fails as a whole: the run ends Failed and
\* the store is left as it was, with exactly one row for each such id and
\* none of the run's records, those of other ids included.
C28_RaceLoserPersistsNothing ==
    [][\A p \in Procs :
           (/\ StepOf(p) /\ pc[p] = "commit"
            /\ \E k \in DOMAIN pending[p] : pending[p][k].message_id \in MessageIdsOf(store))
               => /\ pc'[p] = "failed"
                  /\ store' = store
                  /\ result'[p].persisted = <<>>
                  /\ \A k \in DOMAIN pending[p] :
                         Cardinality({i \in DOMAIN store' :
                                        store'[i].message_id = pending[p][k].message_id}) <= 1
                  /\ \A k \in DOMAIN pending[p] :
                         pending[p][k].message_id \in MessageIdsOf(store)
                             => Cardinality({i \in DOMAIN store' :
                                    store'[i].message_id = pending[p][k].message_id}) = 1]_vars

\* Both runs fetched a message that was not stored; one committed it, the
\* other lost the race and failed, and the record it held for another
\* message, whose id the store does not have, was not persisted either.
C28_Witness ==
    \E p \in Procs :
        /\ result[p].error = "IntegrityError"
        /\ result[Other(p)].status = "ok"
        /\ GatedIds(p) \cap PersistedIds(Other(p)) # {}
        /\ GatedIds(p) \ MessageIdsOf(store) # {}

\* C29: once a run has ended successfully, the store has a row for the id
\* of every message the run fetched, inserted by it or found there.
C29_FetchedIdsStored ==
    \A p \in Procs :
        result[p].status = "ok"
            => \A j \in DOMAIN result[p].emails :
                   result[p].emails[j].id \in MessageIdsOf(store)

\* A scheduled run fetched two messages, found one stored and inserted the
\* other: the store has both ids.
C29_Witness ==
    /\ result["sched"].status = "ok"
    /\ Len(result["sched"].emails) = 2
    /\ result["sched"].skipped = 1
    /\ Len(result["sched"].persisted) = 1
    /\ {result["sched"].emails[j].id : j \in DOMAIN result["sched"].emails}
           \subseteq MessageIdsOf(store)

\* The store has a row for every well-formed message of the listing.
AllWellFormedStored ==
    \A j \in DOMAIN mailbox :
        mailbox[j].id # Absent => mailbox[j].id \in MessageIdsOf(store)

\* C30: with an unchanged mailbox, a store that accepts commits and a
\* scheduler that keeps ticking, every well-formed fetched message is
\* eventually persisted, also when the batch holds a message that can never
\* be ingested.
C30_WellFormedEventuallyPersisted == <>AllWellFormedStored

\* C31: every sync run that starts ends Done or Failed, given that each of
\* its external calls returns or raises; a run that is not in progress has
\* no open database session, so none of its transactions stays open.
C31_RunsTerminateSessionClosed ==
    /\ \A p \in Procs : Active(p) ~> (pc[p] \in {"done", "failed"})
    /\ [](\A p \in Procs : ~Active(p) => session[p] # "open")

\* A run that had opened its session failed at its commit; the session is
\* closed.
C31_Witness ==
    \E p \in Procs :
        /\ pc[p] = "failed"
        /\ result[p].from = "commit"
        /\ session[p] = "closed"

\* C32: an /unread call marks as read only the records it returns, whatever
\* commits of the sync fall between its statements: every row the call that
\* answered with a list marked is in that list.
C32_UnreadMarksOnlyReturned ==
    (rdResp.endpoint = "unread" /\ rdResp.status = "200")
        => rdResp.marked \subseteq rdResp.returned

\* C33: a record without a send timestamp is served like any other: a read
\* endpoint whose rows include one answers with the list, and /unread commits
\* no read flag for a response that then fails.
C33_NullDateServed ==
    rdResp.endpoint # "none" =>
        /\ rdResp.status = "200"
        /\ (rdResp.endpoint = "unread" /\ rdResp.status # "200") => rdResp.marked = {}

\* C34: while the global connector of the v1 router is not initialised,
\* every endpoint that asks for it answers 503 and performs no mailbox
\* operation; once it is initialised no endpoint answers 503.
C34_UninitialisedAnswers503 ==
    v1Resp.endpoint \in V1Endpoints =>
        IF v1Resp.initialised THEN v1Resp.status # "503"
        ELSE v1Resp.status = "503" /\ ~v1Resp.op
====
